---- MODULE Spec2Model ----
(***************************************************************************)
(* The credential / session lifecycle of the Introgy backend:              *)
(*   - app/core/token_manager.py : TokenManager (blacklist, rotation)      *)
(*   - app/core/security.py      : JWT minting and verification            *)
(*   - app/routers/auth.py       : OTP challenge and the auth endpoints    *)
(* Time is counted in ticks of half a second.  A MongoDB collection is a   *)
(* bag of documents (insert_one never rejects a duplicate: no unique index *)
(* is created and _id is generated), and every awaited store call is one   *)
(* atomic step of the server; a store call may also fail.                  *)
(*   Spec      each TokenManager call is one action (a call that meets a   *)
(*             store failure stops where the failure happens)              *)
(*   SpecConc  rotate_refresh_token coroutines, await by await, interleaved*)
(*   SpecIssue create_refresh_token with rotation and revoke-all           *)
(*   SpecJwt   minting and verifying tokens as the clock moves             *)
(*   SpecOtp   the OTP endpoints, one request per action                   *)
(*   SpecGen   generate_otp, one draw per action                           *)
(*   SpecReset reset_password beside the OTP endpoints                     *)
(*   SpecVerify verify_token on tokens and on strings that are none        *)
(*   SpecLogin the login endpoint beside the registration endpoints        *)
(*   SpecDebug the debug endpoints in every environment                    *)
(*   SpecRevoke revoke_all_user_tokens, await by await, with restarts      *)
(*   SpecAccess access tokens verified while the blacklist changes         *)
(*   SpecMint  every request that can mint an access token                 *)
(*   SpecOtpConc verify_otp and register_with_otp, await by await          *)
(***************************************************************************)
EXTENDS Integers, FiniteSets, Sequences, Bags, TLC

VARIABLES
    collection,   \* TokenManager.collection: bag of blacklist and refresh-token documents
    cache,        \* TokenManager._blacklisted_tokens, one set per process
    task,         \* the coroutines in flight, one per slot
    last,         \* the last call that returned: what was called and what it answered
    hist,         \* what has happened so far to one token id (for the properties)
    tokens,       \* the JWTs minted so far by create_access_token / create_refresh_token
    env,          \* os.getenv: JWT_SECRET_KEY and ENVIRONMENT
    secret,       \* security.JWT_SECRET_KEY of each process
    users,        \* the IntrogyUsers collection: email -> is_verified
    usersCollection, \* the users collection: email -> hashed_password
    otps,         \* the otps collection: bag of OTP documents
    now           \* datetime.utcnow(), in minutes

vars == <<collection, cache, task, last, hist, tokens, env, secret, users,
          usersCollection, otps, now>>

authVars == <<tokens, env, secret, users, usersCollection, otps>>

----------------------------------------------------------------------------
(* Domains and bounds *)

TokenIds == {"R0", "R1"}
UserIds  == {"a@example.com", "c@example.com"}
Procs    == {"p1"}          \* one server process, followed across its restarts

MaxDocs == 3      \* the collection holds at most this many documents
MaxTime == 1      \* the clock of the TokenManager specifications stops here
MaxTasks == 2     \* rotate_refresh_token coroutines in flight at once
MaxConcDocs == 4  \* documents the collection holds when coroutines interleave
MaxTokens == 2    \* JWTs minted in a behaviour
MaxMintTime == 1  \* the last tick at which a JWT is minted
MaxKeys == 2      \* signing keys generated in a behaviour
MaxOtps == 2      \* the otps collection holds at most this many documents
MaxIssueTime == 0 \* the last tick at which an OTP challenge is issued

NoValue == "-"

----------------------------------------------------------------------------
(* security.py: constants *)

ACCESS_TOKEN_EXPIRE_MINUTES == 60 * 24
REFRESH_TOKEN_EXPIRE_DAYS == 30

\* datetime and timedelta values, in ticks
TicksPerSecond == 2
Seconds(n) == n * TicksPerSecond
Minutes(n) == Seconds(60 * n)
Days(n) == Minutes(24 * 60 * n)

----------------------------------------------------------------------------
(* The MongoDB collection used by TokenManager *)

\* The fields no query of the program reads are left out of the documents:
\* "reason" of a blacklist document, "created_at" of a refresh-token record.
BlacklistDoc(token_id, at) ==
    [token_id |-> token_id, blacklisted_at |-> at]

RefreshDoc(token_id, user_id) ==
    [token_id |-> token_id, user_id |-> user_id]

IsBlacklistDoc(d) == "blacklisted_at" \in DOMAIN d
IsRefreshDoc(d)   == "user_id" \in DOMAIN d

\* a find_one that would look at revocation documents only
FindRevocationByTokenId(coll, token_id) ==
    {d \in BagToSet(coll) : IsBlacklistDoc(d) /\ d.token_id = token_id}

\* find_one({"token_id": token_id}): the documents the filter matches
FindByTokenId(coll, token_id) == {d \in BagToSet(coll) : d.token_id = token_id}

\* an insert_one under a unique index on token_id
InsertAcceptedUniqueTokenId(coll, doc) == FindByTokenId(coll, doc.token_id) = {}

\* insert_one rejects a document only on a unique-index collision; the
\* collection has no index on token_id, so every document is accepted.
InsertAccepted(coll, doc) == TRUE

HasRoom(coll) == BagCardinality(coll) < MaxDocs

\* an insert that returns without the document being stored
InsertOneUnconfirmed(coll, doc) == coll

InsertOne(coll, doc) == coll (+) SetToBag({doc})

\* a query that gives one matching document and no more
FindOneByUserId(coll, user_id) ==
    LET ds == {d \in BagToSet(coll) : IsRefreshDoc(d) /\ d.user_id = user_id}
    IN  IF ds = {} THEN EmptyBag ELSE SetToBag({CHOOSE d \in ds : TRUE})

\* a find that leaves the user_id filter out
FindByAnyUserId(coll, user_id) ==
    LET ds == {d \in BagToSet(coll) : IsRefreshDoc(d)}
    IN  [d \in ds |-> coll[d]]

\* find({"user_id": user_id}): the matching documents, with multiplicity
FindByUserId(coll, user_id) ==
    LET ds == {d \in BagToSet(coll) : IsRefreshDoc(d) /\ d.user_id = user_id}
    IN  [d \in ds |-> coll[d]]

\* a delete_many whose filter also matches the documents without the field
ExpiredDocsOrNoField(coll, expired_before) ==
    {d \in BagToSet(coll) : ~IsBlacklistDoc(d) \/ d.blacklisted_at < expired_before}

\* delete_many({"blacklisted_at": {"$lt": expired_before}})
ExpiredDocs(coll, expired_before) ==
    {d \in BagToSet(coll) : IsBlacklistDoc(d) /\ d.blacklisted_at < expired_before}

DeleteMany(coll, ds) == [d \in (BagToSet(coll) \ ds) |-> coll[d]]

DeletedCount(coll, ds) == BagCardinality([d \in ds |-> coll[d]])

\* the token ids of a bag of documents, with multiplicity
RECURSIVE TokenIdBag(_)
TokenIdBag(docs) ==
    IF DOMAIN docs = {} THEN EmptyBag
    ELSE LET d == CHOOSE x \in DOMAIN docs : TRUE
             rest == [x \in (DOMAIN docs \ {d}) |-> docs[x]]
         IN  TokenIdBag(rest) (+) [t \in {d.token_id} |-> docs[d]]

\* a lookup that trusts the cache of the process and never asks the store
IsTokenBlacklistedCacheOnly(p, token_id) == token_id \in cache[p]

\* what is_token_blacklisted(token_id) answers at process p in the current state
IsTokenBlacklisted(p, token_id) ==
    \/ token_id \in cache[p]
    \/ FindByTokenId(collection, token_id) # {}

----------------------------------------------------------------------------
(* History kept for the properties *)

\* hist follows one token id, hist.watch, any of TokenIds: hist.done is the
\* set of events that have happened to it so far
\*   "inserted"       a blacklist document of it was stored
\*   "blacklisted"    a blacklist_token call on it returned
\*   "cleanup"        a cleanup_expired_tokens call returned its count
\*   "rotated"        a rotate_refresh_token call with it as current id returned True
\*   "recorded"       a rotate_refresh_token call with it as new id returned True
\*   "revoked_all"    a revoke_all_user_tokens call that read a record of it returned
\*   "minted_revoked" a revoke_all_user_tokens call for the subject it had been
\*                    minted for returned
Happened(h, k, ids) ==
    IF h.watch \in ids THEN [h EXCEPT !.done = @ \cup {k}] ELSE h

\* what had already happened to a token id when a call on it started
Pre(token_id) == IF token_id = hist.watch THEN hist.done \cup {"watched"} ELSE {}

NoCall == [op |-> "none", result |-> NoValue, count |-> 0, pre |-> {}]

Returned(op, result, pre) == [op |-> op, result |-> result, count |-> 0, pre |-> pre]

AddToCache(c, p, ids) == [c EXCEPT ![p] = @ \cup ids]

----------------------------------------------------------------------------
(* TokenManager, one call per action *)

\* a blacklist_token that adds the id to the cache before it awaits the insert
BlacklistTokenCacheFirst(p, token_id) ==
    LET doc == BlacklistDoc(token_id, now)
        ret(result) == Returned("blacklist_token", result, Pre(token_id))
    IN  /\ cache' = AddToCache(cache, p, {token_id})
        /\ \/ /\ HasRoom(collection)
              /\ collection' = InsertOne(collection, doc)
              /\ hist' = Happened(Happened(hist, "inserted", {token_id}),
                                  "blacklisted", {token_id})
              /\ last' = ret("ok")
           \/ /\ last' = ret("store_error")
              /\ UNCHANGED <<collection, hist>>
        /\ UNCHANGED <<task, authVars, now>>

BlacklistToken(p, token_id) ==
    LET doc == BlacklistDoc(token_id, now)
        ret(result) == Returned("blacklist_token", result, Pre(token_id))
    IN  \/ /\ ~InsertAccepted(collection, doc) \/ HasRoom(collection)
           /\ IF InsertAccepted(collection, doc)
              THEN /\ collection' = InsertOne(collection, doc)
                   /\ cache' = AddToCache(cache, p, {token_id})
                   /\ hist' = Happened(Happened(hist, "inserted", {token_id}),
                                       "blacklisted", {token_id})
                   /\ last' = ret("ok")
              ELSE /\ last' = ret("duplicate_key")
                   /\ UNCHANGED <<collection, cache, hist>>
           /\ UNCHANGED <<task, authVars, now>>
        \/ /\ last' = ret("store_error")
           /\ UNCHANGED <<collection, cache, hist, task, authVars, now>>

\* a lookup that answers from the store without adding the id to the cache
IsTokenBlacklistedCallNoBackfill(p, token_id) ==
    LET ret(result) == Returned("is_token_blacklisted", result, Pre(token_id))
    IN  /\ IF token_id \in cache[p]
           THEN last' = ret("true")
           ELSE \/ /\ FindByTokenId(collection, token_id) # {}
                   /\ last' = ret("true")
                \/ /\ FindByTokenId(collection, token_id) = {}
                   /\ last' = ret("false")
                \/ last' = ret("store_error")
        /\ UNCHANGED <<collection, cache, hist, task, authVars, now>>

IsTokenBlacklistedCall(p, token_id) ==
    LET ret(result) == Returned("is_token_blacklisted", result, Pre(token_id))
    IN  /\ IF token_id \in cache[p]
           THEN /\ last' = ret("true")
                /\ cache' = cache
           ELSE \/ /\ FindByTokenId(collection, token_id) # {}
                   /\ cache' = AddToCache(cache, p, {token_id})
                   /\ last' = ret("true")
                \/ /\ FindByTokenId(collection, token_id) = {}
                   /\ cache' = cache
                   /\ last' = ret("false")
                \/ /\ cache' = cache
                   /\ last' = ret("store_error")
        /\ UNCHANGED <<collection, hist, task, authVars, now>>

\* a cleanup that also drops the ids of the deleted documents from the cache
CleanupExpiredTokensEvicting(p) ==
    LET ds == ExpiredDocs(collection, now)
    IN  /\ collection' = DeleteMany(collection, ds)
        /\ cache' = [cache EXCEPT ![p] = @ \ {d.token_id : d \in ds}]
        /\ last' = [Returned("cleanup_expired_tokens", "ok", {}) EXCEPT
                        !.count = DeletedCount(collection, ds)]
        /\ hist' = Happened(hist, "cleanup", {hist.watch})
        /\ UNCHANGED <<task, authVars, now>>

CleanupExpiredTokens(p) ==
    LET ds == ExpiredDocs(collection, now)
    IN  /\ \/ /\ collection' = DeleteMany(collection, ds)
              /\ last' = [Returned("cleanup_expired_tokens", "ok", {}) EXCEPT
                              !.count = DeletedCount(collection, ds)]
              /\ hist' = Happened(hist, "cleanup", {hist.watch})
           \/ /\ collection' = collection
              /\ last' = Returned("cleanup_expired_tokens", "store_error", {})
              /\ hist' = hist
        /\ UNCHANGED <<cache, task, authVars, now>>

\* a rotation that stores the record of the new id before it looks the
\* current id up
RotateRefreshTokenRecordFirst(p, current_token_id, new_token_id, user_id) ==
    /\ IsTokenBlacklisted(p, current_token_id)
    /\ HasRoom(collection)
    /\ collection' = InsertOne(collection, RefreshDoc(new_token_id, user_id))
    /\ cache' = AddToCache(cache, p, {current_token_id})
    /\ last' = Returned("rotate_refresh_token", "revoked", Pre(current_token_id))
    /\ UNCHANGED <<hist, task, authVars, now>>

\* a rotation without the is_token_blacklisted check
RotateRefreshTokenUnchecked(p, current_token_id, new_token_id, user_id) ==
    /\ BagCardinality(collection) + 2 <= MaxDocs
    /\ collection' = InsertOne(InsertOne(collection, BlacklistDoc(current_token_id, now)),
                               RefreshDoc(new_token_id, user_id))
    /\ cache' = AddToCache(cache, p, {current_token_id})
    /\ hist' = Happened(Happened(Happened(Happened(hist, "inserted", {current_token_id}),
                                          "blacklisted", {current_token_id}),
                                 "rotated", {current_token_id}),
                        "recorded", {new_token_id})
    /\ last' = Returned("rotate_refresh_token", "ok", Pre(current_token_id))
    /\ UNCHANGED <<task, authVars, now>>

RotateRefreshToken(p, current_token_id, new_token_id, user_id) ==
    LET ret(result) == Returned("rotate_refresh_token", result, Pre(current_token_id))
        blk  == BlacklistDoc(current_token_id, now)
        rec  == RefreshDoc(new_token_id, user_id)
        coll1 == InsertOne(collection, blk)
        h1   == Happened(Happened(hist, "inserted", {current_token_id}),
                         "blacklisted", {current_token_id})
    IN  /\ IF current_token_id \in cache[p]
           THEN /\ last' = ret("revoked")
                /\ UNCHANGED <<collection, cache, hist>>
           ELSE \/ /\ last' = ret("store_error")         \* find_one raises
                   /\ UNCHANGED <<collection, cache, hist>>
                \/ /\ FindByTokenId(collection, current_token_id) # {}
                   /\ cache' = AddToCache(cache, p, {current_token_id})
                   /\ last' = ret("revoked")
                   /\ UNCHANGED <<collection, hist>>
                \/ /\ FindByTokenId(collection, current_token_id) = {}
                   /\ \/ /\ last' = ret("store_error")   \* the blacklist insert raises
                         /\ UNCHANGED <<collection, cache, hist>>
                      \/ /\ ~InsertAccepted(collection, blk)
                         /\ last' = ret("duplicate_key")
                         /\ UNCHANGED <<collection, cache, hist>>
                      \/ /\ InsertAccepted(collection, blk) /\ HasRoom(collection)
                         /\ cache' = AddToCache(cache, p, {current_token_id})
                         /\ \/ /\ collection' = coll1    \* the record insert raises
                               /\ hist' = h1
                               /\ last' = ret("store_error")
                            \/ /\ ~InsertAccepted(coll1, rec)
                               /\ collection' = coll1
                               /\ hist' = h1
                               /\ last' = ret("duplicate_key")
                            \/ /\ InsertAccepted(coll1, rec) /\ HasRoom(coll1)
                               /\ collection' = InsertOne(coll1, rec)
                               /\ hist' = Happened(Happened(h1, "rotated", {current_token_id}),
                                                "recorded", {new_token_id})
                               /\ last' = ret("ok")
        /\ UNCHANGED <<task, authVars, now>>

MintedFor(user_id) ==
    {tk.jti : tk \in {x \in tokens : x.sub = user_id /\ x.type = "refresh"}}

\* the blacklist documents of a bag of token ids, all written at time `at`
BlacklistDocs(ids, at) ==
    [d \in {BlacklistDoc(t, at) : t \in DOMAIN ids} |-> ids[d.token_id]]

\* The loop blacklists the token ids the cursor gave, in the order the store
\* returns them; `revoked` is the part of them done when the call ends: all of
\* them, or those before an insert that raises.
RevokeAllUserTokens(p, user_id) ==
    LET ids == TokenIdBag(FindByUserId(collection, user_id))
        ret(result) == Returned("revoke_all_user_tokens", result, {})
    IN  /\ \/ /\ last' = ret("store_error")              \* the cursor raises
              /\ UNCHANGED <<collection, cache, hist>>
           \/ \E revoked \in SubBag(ids) :
                /\ BagCardinality(collection) + BagCardinality(revoked) <= MaxDocs
                /\ collection' = collection (+) BlacklistDocs(revoked, now)
                /\ cache' = AddToCache(cache, p, BagToSet(revoked))
                /\ LET h1 == Happened(Happened(hist, "inserted", BagToSet(revoked)),
                                      "blacklisted", BagToSet(revoked))
                   IN  IF revoked = ids
                       THEN /\ hist' = Happened(Happened(h1, "revoked_all", BagToSet(ids)),
                                                "minted_revoked", MintedFor(user_id))
                            /\ last' = ret("ok")
                       ELSE /\ hist' = h1
                            /\ last' = ret("store_error")
        /\ UNCHANGED <<task, authVars, now>>

----------------------------------------------------------------------------
(* The environment of a TokenManager *)

\* a slot with no coroutine in it
Idle == [pc |-> "idle", proc |-> NoValue, cur |-> NoValue, new |-> NoValue,
         user |-> NoValue, result |-> NoValue, with |-> {}]

\* a process stops and starts again: __init__ builds an empty cache and the
\* coroutines of the process are gone
Restart(p) ==
    /\ cache' = [cache EXCEPT ![p] = {}]
    /\ task' = [i \in DOMAIN task |-> IF task[i].proc = p THEN Idle ELSE task[i]]
    /\ UNCHANGED <<collection, last, hist, authVars, now>>

Tick ==
    /\ now < MaxTime
    /\ now' = now + 1
    /\ UNCHANGED <<collection, cache, task, last, hist, authVars>>

----------------------------------------------------------------------------
(* security.py: the signing key of a process *)

\* the key of the environment variable, when it is set; the keys a process
\* generates for itself are 1, 2, ..
EnvKey == 0

ProcIndex ==
    CHOOSE f \in [Procs -> 1 .. Cardinality(Procs)] :
        \A p \in Procs, q \in Procs : f[p] = f[q] => p = q

\* JWT_SECRET_KEY after the module is loaded: the configured key, or a key
\* just generated, different from the keys generated before (`newest`)
LoadedKey(e, newest) ==
    IF e.JWT_SECRET_KEY # NoValue THEN EnvKey ELSE newest + 1

Max(S) == CHOOSE x \in S : \A y \in S : y <= x

----------------------------------------------------------------------------
(* Specification of the TokenManager, call by call *)

\* empty collections, no call made yet
InitEmpty ==
    /\ collection = EmptyBag
    /\ cache = [p \in Procs |-> {}]
    /\ last = NoCall
    /\ tokens = {}
    /\ users = <<>>
    /\ usersCollection = <<>>
    /\ otps = EmptyBag
    /\ now = 0

\* the processes run with the environment e
InitEnv(e) ==
    /\ env = e
    /\ secret = [p \in Procs |-> LoadedKey(e, ProcIndex[p] - 1)]

InitStore ==
    /\ InitEmpty
    /\ InitEnv([JWT_SECRET_KEY |-> NoValue, ENVIRONMENT |-> "development"])
    /\ \E t \in TokenIds : hist = [watch |-> t, done |-> {}]

Init ==
    /\ InitStore
    /\ task = <<>>

Next ==
    \/ \E p \in Procs :
         \/ \E token_id \in TokenIds :
              \/ BlacklistToken(p, token_id)
              \/ IsTokenBlacklistedCall(p, token_id)
         \/ CleanupExpiredTokens(p)
         \/ \E current_token_id \in TokenIds, new_token_id \in TokenIds, user_id \in UserIds :
              RotateRefreshToken(p, current_token_id, new_token_id, user_id)
         \/ \E user_id \in UserIds : RevokeAllUserTokens(p, user_id)
         \/ Restart(p)
    \/ Tick

Spec == Init /\ [][Next]_vars

----------------------------------------------------------------------------
(* rotate_refresh_token as a coroutine: one action per await on the store.  *)
(* The event loop runs a coroutine up to its next await without a break, so *)
(* an action is a store operation together with the code that follows it up *)
(* to the next await.                                                       *)

Slots == 1 .. MaxTasks

InFlight(i) == task[i].pc \in {"find", "blacklist", "record"}

Finish(t, result) == [t EXCEPT !.pc = "done", !.result = result]

\* rotate_refresh_token is called: is_token_blacklisted reads the cache and,
\* on a miss, awaits find_one
StartRotateRefreshToken(i, p, current_token_id, new_token_id, user_id) ==
    LET t == [pc |-> "find", proc |-> p, cur |-> current_token_id, new |-> new_token_id,
              user |-> user_id, result |-> NoValue,
              with |-> {j \in Slots : InFlight(j)}]
    IN  /\ task[i].pc = "idle"
        /\ task' = [task EXCEPT ![i] = IF current_token_id \in cache[p]
                                        THEN Finish(t, "revoked") ELSE t]
        /\ UNCHANGED <<collection, cache, last, hist, authVars, now>>

\* find_one answers: a document is cached and raises 401, none lets
\* blacklist_token await its insert_one
RotateFind(i) ==
    LET t == task[i]
    IN  /\ t.pc = "find"
        /\ \/ /\ FindByTokenId(collection, t.cur) # {}
              /\ cache' = AddToCache(cache, t.proc, {t.cur})
              /\ task' = [task EXCEPT ![i] = Finish(t, "revoked")]
           \/ /\ FindByTokenId(collection, t.cur) = {}
              /\ cache' = cache
              /\ task' = [task EXCEPT ![i].pc = "blacklist"]
           \/ /\ cache' = cache
              /\ task' = [task EXCEPT ![i] = Finish(t, "store_error")]
        /\ UNCHANGED <<collection, last, hist, authVars, now>>

\* the insert_one of blacklist_token answers, the id is cached and the
\* insert_one of the new record is awaited
RotateBlacklist(i) ==
    LET t == task[i]
        blk == BlacklistDoc(t.cur, now)
    IN  /\ t.pc = "blacklist"
        /\ \/ /\ InsertAccepted(collection, blk)
              /\ BagCardinality(collection) < MaxConcDocs
              /\ collection' = InsertOne(collection, blk)
              /\ cache' = AddToCache(cache, t.proc, {t.cur})
              /\ task' = [task EXCEPT ![i].pc = "record"]
           \/ /\ ~InsertAccepted(collection, blk)
              /\ task' = [task EXCEPT ![i] = Finish(t, "duplicate_key")]
              /\ UNCHANGED <<collection, cache>>
           \/ /\ task' = [task EXCEPT ![i] = Finish(t, "store_error")]
              /\ UNCHANGED <<collection, cache>>
        /\ UNCHANGED <<last, hist, authVars, now>>

\* the insert_one of the new record answers and the call returns True
RotateRecord(i) ==
    LET t == task[i]
        rec == RefreshDoc(t.new, t.user)
    IN  /\ t.pc = "record"
        /\ \/ /\ InsertAccepted(collection, rec)
              /\ BagCardinality(collection) < MaxConcDocs
              /\ collection' = InsertOne(collection, rec)
              /\ task' = [task EXCEPT ![i] = Finish(t, "ok")]
           \/ /\ ~InsertAccepted(collection, rec)
              /\ task' = [task EXCEPT ![i] = Finish(t, "duplicate_key")]
              /\ collection' = collection
           \/ /\ task' = [task EXCEPT ![i] = Finish(t, "store_error")]
              /\ collection' = collection
        /\ UNCHANGED <<cache, last, hist, authVars, now>>

\* the caller has taken the answer of every call that has ended
RotateReturn ==
    /\ \E i \in Slots : task[i].pc = "done"
    /\ \A i \in Slots : ~InFlight(i)
    /\ task' = [i \in Slots |-> Idle]
    /\ UNCHANGED <<collection, cache, last, hist, authVars, now>>

InitConc ==
    /\ InitStore
    /\ task = [i \in Slots |-> Idle]

NextConc ==
    \/ \E i \in Slots :
         \/ \E p \in Procs, current_token_id \in TokenIds, new_token_id \in TokenIds,
                user_id \in UserIds :
              StartRotateRefreshToken(i, p, current_token_id, new_token_id, user_id)
         \/ RotateFind(i)
         \/ RotateBlacklist(i)
         \/ RotateRecord(i)
    \/ RotateReturn
    \/ \E p \in Procs : Restart(p)

SpecConc == InitConc /\ [][NextConc]_vars

----------------------------------------------------------------------------
(* security.py: a process starts *)

\* a server process starts: security.py is loaded
LoadSecurity(p) ==
    LET newest == Max({secret[q] : q \in Procs} \cup {tk.key : tk \in tokens})
    IN  /\ newest < MaxKeys
        /\ secret' = [secret EXCEPT ![p] = LoadedKey(env, newest)]
        /\ UNCHANGED <<collection, cache, task, last, hist, tokens, env, users, otps, usersCollection, now>>

----------------------------------------------------------------------------
(* security.py: minting and verifying tokens *)

\* timegm(d.utctimetuple()): a datetime as whole seconds
Timestamp(t) == t \div TicksPerSecond

\* jwt.encode: the datetime claims become whole seconds, the token is signed
Encode(claims, key) ==
    [sub |-> claims.sub, type |-> claims.type, jti |-> claims.jti,
     iat |-> Timestamp(claims.iat), exp |-> Timestamp(claims.exp), key |-> key]

\* a decode that reads the claims without checking the signature
DecodeUnverified(tk, key, t) ==
    IF tk.exp < Timestamp(t) THEN "Signature has expired." ELSE "ok"

\* jwt.decode at time t: the signature, then the exp claim
Decode(tk, key, t) ==
    IF tk.key # key THEN "Signature verification failed."
    ELSE IF tk.exp < Timestamp(t) THEN "Signature has expired."
    ELSE "ok"

\* generate_token_id: 128 random bits, an id not given before
FreshTokenId(jti) == jti \notin {tk.jti : tk \in tokens}

\* Optional[timedelta]: None is <<>>, a timedelta of d ticks is <<d>>
None == <<>>

\* `if expires_delta:` - None is false, and so is timedelta(0)
Truthy(expires_delta) == expires_delta # None /\ expires_delta[1] # 0

AccessToken(p, sub, expires_delta, jti) ==
    LET expire == IF Truthy(expires_delta) THEN now + expires_delta[1]
                  ELSE now + Minutes(ACCESS_TOKEN_EXPIRE_MINUTES)
    IN  Encode([sub |-> sub, jti |-> jti, iat |-> now, type |-> "access", exp |-> expire],
               secret[p])

RefreshToken(p, user_id, jti) ==
    Encode([sub |-> user_id, type |-> "refresh", jti |-> jti, iat |-> now,
            exp |-> now + Days(REFRESH_TOKEN_EXPIRE_DAYS)], secret[p])

MayMint(jti) ==
    /\ FreshTokenId(jti)
    /\ Cardinality(tokens) < MaxTokens
    /\ now <= MaxMintTime

CreateAccessToken(p, sub, expires_delta, jti) ==
    /\ MayMint(jti)
    /\ tokens' = tokens \cup {AccessToken(p, sub, expires_delta, jti)}
    /\ UNCHANGED <<collection, cache, task, last, hist, env, secret, users, otps, usersCollection, now>>

CreateRefreshToken(p, user_id, jti) ==
    /\ MayMint(jti)
    /\ tokens' = tokens \cup {RefreshToken(p, user_id, jti)}
    /\ UNCHANGED <<collection, cache, task, last, hist, env, secret, users, otps, usersCollection, now>>

Answered(op, result, tk, token_type, key) ==
    [op |-> op, result |-> result, token |-> tk, token_type |-> token_type,
     key |-> key, at |-> now]

VerifyTokenResult(tk, token_type, key, t) ==
    LET decoded == Decode(tk, key, t)
    IN  IF decoded # "ok" THEN decoded
        ELSE IF tk.type # token_type THEN "Invalid token type"
        ELSE "ok"

\* a verify_token that asks the TokenManager about the jti of the token
VerifyTokenRevocable(p, tk, token_type) ==
    /\ last' = Answered("verify_token",
                        IF IsTokenBlacklisted(p, tk.jti) THEN "Token has been revoked"
                        ELSE VerifyTokenResult(tk, token_type, secret[p], now),
                        tk, token_type, secret[p])
    /\ cache' = AddToCache(cache, p, IF IsTokenBlacklisted(p, tk.jti) THEN {tk.jti} ELSE {})
    /\ UNCHANGED <<collection, task, hist, authVars, now>>

VerifyToken(p, tk, token_type) ==
    /\ last' = Answered("verify_token", VerifyTokenResult(tk, token_type, secret[p], now),
                        tk, token_type, secret[p])
    /\ UNCHANGED <<collection, cache, task, hist, authVars, now>>

GetCurrentUser(p, tk) ==
    LET ret(result) == Answered("get_current_user", result, tk, NoValue, secret[p])
    IN  /\ IF Decode(tk, secret[p], now) # "ok"
           THEN last' = ret("Could not validate credentials")
           ELSE \/ /\ tk.sub \in DOMAIN users
                   /\ last' = ret("ok")
                \/ /\ tk.sub \notin DOMAIN users
                   /\ last' = ret("Could not validate credentials")
                \/ last' = ret("store_error")
        /\ UNCHANGED <<collection, cache, task, hist, authVars, now>>

----------------------------------------------------------------------------
(* auth.py: the endpoint that creates an account without a challenge *)

Upsert(u, email, is_verified) ==
    [e \in DOMAIN u \cup {email} |-> IF e = email THEN is_verified ELSE u[e]]

DebugForceRegister(p, email, jti) ==
    LET ret(result) == [op |-> "debug_force_register", result |-> result]
    IN  IF env.ENVIRONMENT = "production"
        THEN /\ last' = ret("Debug endpoints are not available in production")
             /\ UNCHANGED <<collection, cache, task, hist, authVars, now>>
        ELSE \/ /\ MayMint(jti)
                /\ users' = Upsert(users, email, TRUE)
                /\ tokens' = tokens \cup {AccessToken(p, email, None, jti)}
                /\ last' = ret("ok")
                /\ UNCHANGED <<collection, cache, task, hist, env, secret, otps, usersCollection, now>>
             \/ /\ last' = ret("Failed to force register user")
                /\ UNCHANGED <<collection, cache, task, hist, authVars, now>>

\* the clock moves on to a later instant
AdvanceClock(t) ==
    /\ t > now
    /\ now' = t
    /\ UNCHANGED <<collection, cache, task, last, hist, authVars>>

----------------------------------------------------------------------------
(* Specification of the tokens: minting, verification, accounts (SpecJwt) *)

Environments ==
    [JWT_SECRET_KEY : {NoValue, "configured"}, ENVIRONMENT : {"development", "production"}]

TokenTypes == {"access", "refresh"}

ExpiresDeltas == {None, <<0>>, <<Seconds(1)>>}

\* the instants the clock visits: the first seconds, and the ticks from just
\* before a lifetime has passed to a whole second after it
Around(t) == (t - 1) .. (t + TicksPerSecond)

JwtTimes ==
    (0 .. Seconds(2))
        \cup Around(Minutes(ACCESS_TOKEN_EXPIRE_MINUTES))
        \cup Around(Days(REFRESH_TOKEN_EXPIRE_DAYS))

InitJwt ==
    /\ InitEmpty
    /\ \E e \in Environments : InitEnv(e)
    /\ hist = [watch |-> NoValue, done |-> {}]
    /\ task = <<>>

NextJwt ==
    \/ \E p \in Procs :
         \/ \E jti \in TokenIds, sub \in UserIds :
              \/ \E expires_delta \in ExpiresDeltas :
                   CreateAccessToken(p, sub, expires_delta, jti)
              \/ CreateRefreshToken(p, sub, jti)
              \/ DebugForceRegister(p, sub, jti)
         \/ \E tk \in tokens :
              \/ \E token_type \in TokenTypes : VerifyToken(p, tk, token_type)
              \/ GetCurrentUser(p, tk)
         \/ LoadSecurity(p)
    \/ \E t \in JwtTimes : AdvanceClock(t)

SpecJwt == InitJwt /\ [][NextJwt]_vars

----------------------------------------------------------------------------
(* verify_token on strings that are no tokens, and its answers (SpecVerify) *)

\* A string handed in as a token is the sequence of its dot-separated
\* segments; none of these segments is the base64 of a JSON object.
RawTokens == {<<"">>, <<"e30", "e30">>, <<"x", "y", "z">>}

\* jwt.decode of such a string: jws splits it into header, claims and
\* signature and then reads the header; either step raises a JWTError
DecodeRaw(raw) ==
    IF Len(raw) < 3 THEN "Not enough segments"
    ELSE "Invalid header string"

\* the status_code of the HTTPException verify_token raises for an answer:
\* both raise statements give HTTP_401_UNAUTHORIZED
VerifyTokenStatus(result) == IF result = "ok" THEN 200 ELSE 401

VerifyRawToken(p, raw, token_type) ==
    /\ last' = [op |-> "verify_token", result |-> DecodeRaw(raw), raw |-> raw,
                token_type |-> token_type, at |-> now]
    /\ UNCHANGED <<collection, cache, task, hist, authVars, now>>

VerifyTimes == (0 .. Seconds(1)) \cup Around(Minutes(ACCESS_TOKEN_EXPIRE_MINUTES))

NextVerify ==
    \/ \E p \in Procs :
         \/ \E jti \in TokenIds, sub \in UserIds :
              \/ CreateAccessToken(p, sub, None, jti)
              \/ CreateRefreshToken(p, sub, jti)
         \/ \E tk \in tokens, token_type \in TokenTypes : VerifyToken(p, tk, token_type)
         \/ \E raw \in RawTokens, token_type \in TokenTypes :
              VerifyRawToken(p, raw, token_type)
         \/ LoadSecurity(p)
    \/ \E t \in VerifyTimes : AdvanceClock(t)

SpecVerify == InitJwt /\ [][NextVerify]_vars

----------------------------------------------------------------------------
(* Specification of refresh tokens minted and then rotated (SpecIssue) *)

NextIssue ==
    \E p \in Procs :
        \/ \E jti \in TokenIds, user_id \in UserIds : CreateRefreshToken(p, user_id, jti)
        \/ \E current_token_id \in TokenIds, new_token_id \in TokenIds, user_id \in UserIds :
             RotateRefreshToken(p, current_token_id, new_token_id, user_id)
        \/ \E user_id \in UserIds : RevokeAllUserTokens(p, user_id)
        \/ Restart(p)

SpecIssue == Init /\ [][NextIssue]_vars

----------------------------------------------------------------------------
(* Access tokens verified while the blacklist changes (SpecAccess) *)

\* the instants the clock visits: after a lifetime of one second, and after
\* the default lifetime of an access token
AccessTimes == {Seconds(2), Minutes(ACCESS_TOKEN_EXPIRE_MINUTES) + Seconds(1)}

NextAccess ==
    \/ \E p \in Procs :
         \/ \E jti \in TokenIds, sub \in UserIds :
              \/ \E expires_delta \in {None, <<Seconds(1)>>} :
                   CreateAccessToken(p, sub, expires_delta, jti)
              \/ DebugForceRegister(p, sub, jti)
         \/ \E tk \in tokens :
              \/ \E token_type \in TokenTypes : VerifyToken(p, tk, token_type)
              \/ GetCurrentUser(p, tk)
         \/ \E token_id \in TokenIds :
              \/ BlacklistToken(p, token_id)
              \/ IsTokenBlacklistedCall(p, token_id)
         \/ CleanupExpiredTokens(p)
    \/ \E t \in AccessTimes : AdvanceClock(t)

SpecAccess == InitJwt /\ [][NextAccess]_vars

----------------------------------------------------------------------------
(* auth.py: the OTP challenge *)

OTP_EXPIRE_MINUTES == 10

OtpDoc(email, code, created_at, expires_at) ==
    [email |-> email, code |-> code, created_at |-> created_at, expires_at |-> expires_at]

\* a find_one whose filter on expires_at is {"$gte": t}
FindOtpInclusive(coll, email, code, t) ==
    {d \in BagToSet(coll) : d.email = email /\ d.code = code /\ d.expires_at >= t}

\* find_one({"email": .., "code": .., "expires_at": {"$gt": t}})
FindOtp(coll, email, code, t) ==
    {d \in BagToSet(coll) : d.email = email /\ d.code = code /\ d.expires_at > t}

\* delete_one({"_id": ..}): one document goes, its copies stay
DeleteOne(coll, d) == coll (-) SetToBag({d})

\* update_one(.., {"$set": {"is_verified": True}}).modified_count
ModifiedCount(u, email) == IF email \in DOMAIN u /\ ~u[email] THEN 1 ELSE 0

\* the stored challenges of an email with a code, expired or not
OtpRecords(coll, email, code) ==
    {d \in BagToSet(coll) : d.email = email /\ d.code = code}

\* the answer to a request, with what the stores held when it arrived:
\*   matched   the query of the handler had a document to return
\*   expired   challenges with this email and code are stored, every one of
\*             them at or past its expires_at
\*   account   IntrogyUsers has a document with this email
\*   verified  and that document has is_verified set
\*   docs      the challenge the request stored (send_verification_code)
\*   raised    the store call of register_with_otp that raised, if one did
OtpAnswered(op, result, email, code) ==
    [op |-> op, result |-> result,
     matched |-> FindOtp(otps, email, code, now) # {},
     expired |-> /\ OtpRecords(otps, email, code) # {}
                 /\ \A d \in OtpRecords(otps, email, code) : now >= d.expires_at,
     account |-> email \in DOMAIN users,
     verified |-> email \in DOMAIN users /\ users[email],
     docs |-> {},
     raised |-> NoValue]

\* a handler that takes the challenge back when the message cannot be sent
AfterDeliveryRollback(coll, doc, delivered) ==
    IF delivered THEN coll ELSE coll (-) SetToBag({doc})

\* the otps collection once send_email has returned or raised: the handler
\* re-raises the failure and touches the store no more
AfterDelivery(coll, doc, delivered) == coll

SendVerificationCode(email, code) ==
    LET ret(result) == OtpAnswered("send_verification_code", result, email, code)
        doc == OtpDoc(email, code, now, now + Minutes(OTP_EXPIRE_MINUTES))
        sent(result) == [ret(result) EXCEPT !.docs = {doc}]
    IN  /\ now <= MaxIssueTime
        /\ \/ /\ last' = ret("store_error")             \* the account lookup raises
              /\ otps' = otps
           \/ /\ last' = ret("Database error")          \* the insert raises
              /\ otps' = otps
           \/ /\ BagCardinality(otps) < MaxOtps
              /\ \E delivered \in BOOLEAN :
                    /\ otps' = AfterDelivery(otps (+) SetToBag({doc}), doc, delivered)
                    /\ last' = sent(IF delivered THEN "ok" ELSE "Error sending email")
        /\ UNCHANGED <<collection, cache, task, hist, tokens, env, secret, users, usersCollection, now>>

VerifyOtp(email, code) ==
    LET ret(result) == OtpAnswered("verify_otp", result, email, code)
        found == FindOtp(otps, email, code, now)
    IN  /\ \/ /\ last' = ret("store_error")             \* find_one raises
              /\ UNCHANGED <<otps, users>>
           \/ /\ found = {}
              /\ last' = ret("Invalid or expired verification code")
              /\ UNCHANGED <<otps, users>>
           \/ \E otp_record \in found :
                \/ /\ last' = ret("Failed to verify OTP")        \* update_one raises
                   /\ UNCHANGED <<otps, users>>
                \/ /\ ModifiedCount(users, email) = 0
                   /\ last' = ret("User not found")
                   /\ UNCHANGED <<otps, users>>
                \/ /\ ModifiedCount(users, email) # 0
                   /\ users' = [users EXCEPT ![email] = TRUE]
                   /\ \/ /\ last' = ret("Failed to verify OTP") \* delete_one raises
                         /\ otps' = otps
                      \/ /\ otps' = DeleteOne(otps, otp_record)
                         /\ last' = ret("ok")
        /\ hist' = IF last'.result = "ok" THEN Happened(hist, "verified", {email}) ELSE hist
        /\ UNCHANGED <<collection, cache, task, tokens, env, secret, usersCollection, now>>

\* a registration that writes the account before it deletes the challenge
RegisterWithOtpUpsertFirst(p, email, code, jti) ==
    LET ret(result) == OtpAnswered("register_with_otp", result, email, code)
        raised(call) == [ret("Registration failed") EXCEPT !.raised = call]
        found == FindOtp(otps, email, code, now)
    IN  /\ \/ /\ found = {}
              /\ last' = ret("Invalid or expired verification code")
              /\ UNCHANGED <<otps, users, tokens>>
           \/ \E otp_record \in found :
                \/ /\ last' = raised("update_one")
                   /\ UNCHANGED <<otps, users, tokens>>
                \/ /\ FreshTokenId(jti) /\ Cardinality(tokens) < MaxTokens
                   /\ users' = Upsert(users, email, TRUE)
                   /\ otps' = DeleteOne(otps, otp_record)
                   /\ tokens' = tokens \cup {AccessToken(p, email, None, jti)}
                   /\ last' = ret("ok")
        /\ UNCHANGED <<collection, cache, task, hist, env, secret, usersCollection, now>>

RegisterWithOtp(p, email, code, jti) ==
    LET ret(result) == OtpAnswered("register_with_otp", result, email, code)
        raised(call) == [ret("Registration failed") EXCEPT !.raised = call]
        found == FindOtp(otps, email, code, now)
    IN  /\ \/ /\ last' = ret("store_error")             \* find_one raises
              /\ UNCHANGED <<otps, users, tokens>>
           \/ /\ found = {}
              /\ last' = ret("Invalid or expired verification code")
              /\ UNCHANGED <<otps, users, tokens>>
           \/ \E otp_record \in found :
                \/ /\ last' = raised("delete_one")
                   /\ UNCHANGED <<otps, users, tokens>>
                \/ /\ otps' = DeleteOne(otps, otp_record)
                   /\ \/ /\ last' = raised("update_one")
                         /\ UNCHANGED <<users, tokens>>
                      \/ /\ FreshTokenId(jti) /\ Cardinality(tokens) < MaxTokens
                         /\ users' = Upsert(users, email, TRUE)
                         /\ tokens' = tokens \cup {AccessToken(p, email, None, jti)}
                         /\ last' = ret("ok")
        /\ UNCHANGED <<collection, cache, task, hist, env, secret, usersCollection, now>>

----------------------------------------------------------------------------
(* Specification of the OTP challenge (SpecOtp) *)

OtpCodes == {"000000", "123456"}

\* generate_token_id: an id not given before (which one makes no difference)
NewTokenId ==
    CHOOSE jti \in TokenIds :
        FreshTokenId(jti) \/ \A other \in TokenIds : ~FreshTokenId(other)

\* the instants the clock visits: the ticks at which challenges are issued,
\* and the ticks from just before the first of them expires until the last
\* of them has
OtpTimes ==
    (0 .. MaxIssueTime)
        \cup ((Minutes(OTP_EXPIRE_MINUTES) - 1) .. (Minutes(OTP_EXPIRE_MINUTES) + MaxIssueTime))

\* IntrogyUsers may hold accounts written before the server started; the
\* server itself writes accounts with is_verified already set
InitOtp ==
    /\ collection = EmptyBag
    /\ cache = [p \in Procs |-> {}]
    /\ last = NoCall
    /\ tokens = {}
    /\ usersCollection = <<>>
    /\ otps = EmptyBag
    /\ now = 0
    /\ InitEnv([JWT_SECRET_KEY |-> NoValue, ENVIRONMENT |-> "development"])
    /\ hist = [watch |-> NoValue, done |-> {}]
    /\ task = <<>>
    /\ \E seeded \in SUBSET UserIds : users = [e \in seeded |-> FALSE]

NextOtp ==
    \/ \E email \in UserIds, code \in OtpCodes :
         \/ SendVerificationCode(email, code)
         \/ VerifyOtp(email, code)
         \/ \E p \in Procs : RegisterWithOtp(p, email, code, NewTokenId)
    \/ \E t \in OtpTimes : AdvanceClock(t)

SpecOtp == InitOtp /\ [][NextOtp]_vars

----------------------------------------------------------------------------
(* verify_otp and register_with_otp as coroutines: one action per await on *)
(* the store (SpecOtpConc)                                                  *)

MaxRequests == 2

\* the one stored challenge the requests submit the email and code of
StoredOtp == OtpDoc("a@example.com", "123456", 0, Minutes(OTP_EXPIRE_MINUTES))

\* a request in slot i of task:
\*   pc "find"     it has arrived and awaits its find_one
\*   pc "matched"  find_one gave it the record in otp_record
\*   pc "updated"  verify_otp: update_one has set is_verified
\*   pc "deleted"  register_with_otp: delete_one has returned
\*   pc "done"     it has been answered with result
OtpRequest(pc, handler, otp_record, result) ==
    [pc |-> pc, handler |-> handler, otp_record |-> otp_record, result |-> result]

NoRequest == OtpRequest("idle", NoValue, {}, NoValue)

OtpStep(i, pc, otp_record, result) ==
    task' = [task EXCEPT ![i] = OtpRequest(pc, task[i].handler, otp_record, result)]

StartOtpRequest(i, handler) ==
    /\ task[i].pc = "idle"
    /\ task' = [task EXCEPT ![i] = OtpRequest("find", handler, {}, NoValue)]
    /\ UNCHANGED <<collection, cache, last, hist, authVars, now>>

\* the find_one of either handler, and the test on its result
OtpFind(i) ==
    LET found == FindOtp(otps, StoredOtp.email, StoredOtp.code, now)
    IN  /\ task[i].pc = "find"
        /\ \/ OtpStep(i, "done", {}, "store_error")
           \/ /\ found = {}
              /\ OtpStep(i, "done", {}, "Invalid or expired verification code")
           \/ \E otp_record \in found : OtpStep(i, "matched", {otp_record}, NoValue)
        /\ UNCHANGED <<collection, cache, last, hist, authVars, now>>

\* verify_otp: update_one and the test on modified_count
VerifyOtpUpdate(i) ==
    LET email == StoredOtp.email
    IN  /\ task[i].pc = "matched"
        /\ task[i].handler = "verify_otp"
        /\ \/ /\ OtpStep(i, "done", task[i].otp_record, "Failed to verify OTP")
              /\ users' = users
           \/ /\ ModifiedCount(users, email) = 0
              /\ OtpStep(i, "done", task[i].otp_record, "User not found")
              /\ users' = users
           \/ /\ ModifiedCount(users, email) # 0
              /\ users' = [users EXCEPT ![email] = TRUE]
              /\ OtpStep(i, "updated", task[i].otp_record, NoValue)
        /\ UNCHANGED <<collection, cache, last, hist, tokens, env, secret, usersCollection,
                       otps, now>>

\* delete_one({"_id": ..}) deletes the record if it is still stored and
\* reports no error if it is not
DeleteById(coll, otp_record) ==
    IF otp_record \in BagToSet(coll) THEN DeleteOne(coll, otp_record) ELSE coll

\* verify_otp: delete_one and the answer
VerifyOtpDelete(i) ==
    /\ task[i].pc = "updated"
    /\ \/ /\ OtpStep(i, "done", task[i].otp_record, "Failed to verify OTP")
          /\ otps' = otps
       \/ \E otp_record \in task[i].otp_record :
            /\ otps' = DeleteById(otps, otp_record)
            /\ OtpStep(i, "done", task[i].otp_record, "ok")
    /\ UNCHANGED <<collection, cache, last, hist, tokens, env, secret, users,
                   usersCollection, now>>

\* register_with_otp: delete_one
RegisterWithOtpDelete(i) ==
    /\ task[i].pc = "matched"
    /\ task[i].handler = "register_with_otp"
    /\ \/ /\ OtpStep(i, "done", task[i].otp_record, "Registration failed")
          /\ otps' = otps
       \/ \E otp_record \in task[i].otp_record :
            /\ otps' = DeleteById(otps, otp_record)
            /\ OtpStep(i, "deleted", task[i].otp_record, NoValue)
    /\ UNCHANGED <<collection, cache, last, hist, tokens, env, secret, users,
                   usersCollection, now>>

\* register_with_otp: the upsert, create_access_token and the answer
RegisterWithOtpUpsert(i, p, jti) ==
    LET email == StoredOtp.email
    IN  /\ task[i].pc = "deleted"
        /\ \/ /\ OtpStep(i, "done", task[i].otp_record, "Registration failed")
              /\ UNCHANGED <<users, tokens>>
           \/ /\ FreshTokenId(jti)
              /\ users' = Upsert(users, email, TRUE)
              /\ tokens' = tokens \cup {AccessToken(p, email, None, jti)}
              /\ OtpStep(i, "done", task[i].otp_record, "ok")
        /\ UNCHANGED <<collection, cache, last, hist, env, secret, usersCollection, otps, now>>

\* one challenge is stored; the email has no account, an unverified one or a
\* verified one; no request has arrived
InitOtpConc ==
    /\ collection = EmptyBag
    /\ cache = [p \in Procs |-> {}]
    /\ last = NoCall
    /\ tokens = {}
    /\ usersCollection = <<>>
    /\ otps = SetToBag({StoredOtp})
    /\ now = 0
    /\ InitEnv([JWT_SECRET_KEY |-> NoValue, ENVIRONMENT |-> "development"])
    /\ hist = [watch |-> NoValue, done |-> {}]
    /\ task = [i \in 1 .. MaxRequests |-> NoRequest]
    /\ \/ users = <<>>
       \/ \E is_verified \in BOOLEAN : users = [e \in {StoredOtp.email} |-> is_verified]

NextOtpConc ==
    \E i \in 1 .. MaxRequests :
        \/ \E handler \in {"verify_otp", "register_with_otp"} : StartOtpRequest(i, handler)
        \/ OtpFind(i)
        \/ VerifyOtpUpdate(i)
        \/ VerifyOtpDelete(i)
        \/ RegisterWithOtpDelete(i)
        \/ \E p \in Procs : RegisterWithOtpUpsert(i, p, NewTokenId)

SpecOtpConc == InitOtpConc /\ [][NextOtpConc]_vars

----------------------------------------------------------------------------
(* auth.py: generate_otp (SpecGen) *)

\* A Python str is the sequence of its characters.
DEFAULT_OTP_LENGTH == 6

DigitChar == <<"0", "1", "2", "3", "4", "5", "6", "7", "8", "9">>

\* str(k) of an int k >= 0: its decimal digits, most significant first
RECURSIVE Str(_)
Str(k) == IF k < 10 THEN <<DigitChar[k + 1]>>
          ELSE Str(k \div 10) \o <<DigitChar[(k % 10) + 1]>>

\* ''.join(parts)
RECURSIVE Join(_)
Join(parts) == IF parts = <<>> THEN <<>> ELSE Head(parts) \o Join(Tail(parts))

\* a generator that draws from one number too many
RandIntPastEnd(a, b) == a .. (b + 1)

\* random.randint(a, b): any integer from a to b, both ends included
RandInt(a, b) == a .. b

\* range(length) of the default and of shorter lengths
OtpLengths == 0 .. DEFAULT_OTP_LENGTH

Generating == last.op = "generate_otp" /\ last.result = "running"

\* the call, with an empty list when range(length) is empty
GenerateOtp(length) ==
    /\ ~Generating
    /\ last' = [op |-> "generate_otp", length |-> length, parts |-> <<>>,
                result |-> IF length = 0 THEN "ok" ELSE "running",
                out |-> <<>>]
    /\ UNCHANGED <<collection, cache, task, hist, authVars, now>>

\* one turn of the list comprehension; after the last turn the join, and
\* the return
GenerateOtpDigit ==
    /\ Generating
    /\ \E k \in RandInt(0, 9) :
         LET parts == Append(last.parts, Str(k))
         IN  last' = IF Len(parts) < last.length
                     THEN [last EXCEPT !.parts = parts]
                     ELSE [last EXCEPT !.parts = parts, !.result = "ok",
                                       !.out = Join(parts)]
    /\ UNCHANGED <<collection, cache, task, hist, authVars, now>>

NextGen ==
    \/ \E length \in OtpLengths : GenerateOtp(length)
    \/ GenerateOtpDigit

InitGen ==
    /\ InitEmpty
    /\ InitEnv([JWT_SECRET_KEY |-> NoValue, ENVIRONMENT |-> "development"])
    /\ hist = [watch |-> NoValue, done |-> {}]
    /\ task = <<>>

SpecGen == InitGen /\ [][NextGen]_vars

----------------------------------------------------------------------------
(* auth.py: reset_password, and create_test_user.py (SpecReset) *)

\* In this specification hist follows one email, hist.watch:
\*   "verified"   a verify_otp request for it returned success
MaxSalts == 2

TEST_USER_EMAIL == "support@introgy.ai"

ResetEmails == {TEST_USER_EMAIL, "a@example.com"}

Passwords == {"new_password"}

\* pwd_context.hash: bcrypt draws a salt, so that two digests of one password
\* differ unless the salts happen to be the same
GetPasswordHash(password, salt) == <<"bcrypt", salt, password>>

ResetAnswered(op, result, email) ==
    [op |-> op, result |-> result, pre |-> Pre(email)]

\* create_test_user.py: the one writer of documents into the users collection
InsertTestUser ==
    /\ IF TEST_USER_EMAIL \in DOMAIN usersCollection
       THEN usersCollection' = usersCollection
       ELSE usersCollection' = (TEST_USER_EMAIL :> <<"test_password">>) @@ usersCollection
    /\ last' = ResetAnswered("insert_test_user", "ok", TEST_USER_EMAIL)
    /\ UNCHANGED <<collection, cache, task, hist, tokens, env, secret, users, otps, now>>

ResetPassword(email, new_password) ==
    LET ret(result) == ResetAnswered("reset_password", result, email)
    IN  /\ \/ /\ last' = ret("Failed to reset password")      \* update_one raises
              /\ usersCollection' = usersCollection
           \/ \E salt \in 1 .. MaxSalts :
                LET hashed_password == GetPasswordHash(new_password, salt)
                    modified_count ==
                        IF /\ email \in DOMAIN usersCollection
                           /\ usersCollection[email] # hashed_password
                        THEN 1 ELSE 0
                IN  IF modified_count = 0
                    THEN /\ last' = ret("User not found")
                         /\ usersCollection' = usersCollection
                    ELSE /\ last' = ret("ok")
                         /\ usersCollection' =
                                [usersCollection EXCEPT ![email] = hashed_password]
        /\ UNCHANGED <<collection, cache, task, hist, tokens, env, secret, users, otps, now>>

InitReset ==
    /\ collection = EmptyBag
    /\ cache = [p \in Procs |-> {}]
    /\ last = NoCall
    /\ tokens = {}
    /\ usersCollection = <<>>
    /\ otps = EmptyBag
    /\ now = 0
    /\ InitEnv([JWT_SECRET_KEY |-> NoValue, ENVIRONMENT |-> "development"])
    /\ task = <<>>
    /\ \E email \in ResetEmails : hist = [watch |-> email, done |-> {}]
    /\ \E seeded \in SUBSET ResetEmails : users = [e \in seeded |-> FALSE]

NextReset ==
    \/ \E email \in ResetEmails :
         \/ \E code \in OtpCodes :
              \/ SendVerificationCode(email, code)
              \/ VerifyOtp(email, code)
         \/ \E new_password \in Passwords : ResetPassword(email, new_password)
    \/ InsertTestUser
    \/ \E t \in OtpTimes : AdvanceClock(t)

SpecReset == InitReset /\ [][NextReset]_vars


----------------------------------------------------------------------------
(* auth.py: login_for_access_token and authenticate_user (SpecLogin) *)

\* Every registration of the model submits the one password of Passwords, so
\* the hashed_password of an IntrogyUsers document is one of these digests.
HashedPasswords == {GetPasswordHash(password, salt) : password \in Passwords,
                                                      salt \in 1 .. MaxSalts}

\* pwd_context.verify: the digest is one of the submitted password
VerifyPassword(plain_password, hashed_password) ==
    hashed_password[1] = "bcrypt" /\ hashed_password[3] = plain_password

\* authenticate_user up to the construction of its result: a document with
\* this email exists and its digest verifies the password
Authenticates(u, email, password) ==
    /\ email \in DOMAIN u
    /\ \A hashed_password \in HashedPasswords : VerifyPassword(password, hashed_password)

LoginPasswords == Passwords \cup {"wrong_password"}

\* A document of IntrogyUsers holds _id, email, hashed_password, display_name,
\* is_verified and created_at but no id, the field UserInDB requires, so
\* UserInDB(**user_doc) raises a ValidationError; past it, line 538 reads
\* ACCESS_TOKEN_EXPIRE_MINUTES, a name auth.py does not import.  Neither is
\* caught: the request ends as 500 Internal Server Error.
LoginForAccessToken(username, password) ==
    LET authenticated == Authenticates(users, username, password)
        ret(result, status_code) ==
            [op |-> "login", result |-> result, status_code |-> status_code,
             authenticated |-> authenticated, subjects |-> {}]
    IN  /\ \/ last' = ret("store_error", 500)                 \* find_one raises
           \/ /\ ~authenticated
              /\ last' = ret("Incorrect email or password", 401)
           \/ /\ authenticated
              /\ last' = ret("Internal Server Error", 500)
        /\ UNCHANGED <<collection, cache, task, hist, authVars, now>>

NextLogin ==
    \/ \E email \in UserIds :
         \/ \E p \in Procs : DebugForceRegister(p, email, NewTokenId)
         \/ \E code \in OtpCodes :
              \/ SendVerificationCode(email, code)
              \/ \E p \in Procs : RegisterWithOtp(p, email, code, NewTokenId)
         \/ \E password \in LoginPasswords : LoginForAccessToken(email, password)
    \/ \E t \in OtpTimes : AdvanceClock(t)

SpecLogin == InitJwt /\ [][NextLogin]_vars

----------------------------------------------------------------------------
(* auth.py: the requests that mint an access token (SpecMint) *)

\* /refresh-token: the get_current_user dependency, then the handler
RefreshTokenEndpoint(p, tk, jti) ==
    LET ret(result) == Answered("refresh_token", result, tk, NoValue, secret[p])
    IN  /\ IF Decode(tk, secret[p], now) # "ok"
           THEN /\ last' = ret("Could not validate credentials")
                /\ tokens' = tokens
           ELSE \/ /\ tk.sub \notin DOMAIN users
                   /\ last' = ret("Could not validate credentials")
                   /\ tokens' = tokens
                \/ /\ last' = ret("store_error")
                   /\ tokens' = tokens
                \/ /\ tk.sub \in DOMAIN users
                   /\ FreshTokenId(jti) /\ Cardinality(tokens) < MaxTokens
                   /\ tokens' = tokens \cup {AccessToken(p, tk.sub, None, jti)}
                   /\ last' = ret("ok")
        /\ UNCHANGED <<collection, cache, task, hist, env, secret, users, usersCollection,
                       otps, now>>

NextMint ==
    \/ \E email \in UserIds :
         \/ \E p \in Procs : DebugForceRegister(p, email, NewTokenId)
         \/ \E code \in OtpCodes :
              \/ SendVerificationCode(email, code)
              \/ \E p \in Procs : RegisterWithOtp(p, email, code, NewTokenId)
         \/ \E password \in LoginPasswords : LoginForAccessToken(email, password)
    \/ \E p \in Procs :
         \/ \E tk \in tokens : RefreshTokenEndpoint(p, tk, NewTokenId)
         \/ LoadSecurity(p)
    \/ \E t \in Around(Minutes(ACCESS_TOKEN_EXPIRE_MINUTES)) : AdvanceClock(t)

SpecMint == InitJwt /\ [][NextMint]_vars

----------------------------------------------------------------------------
(* auth.py: the debug endpoints (SpecDebug) *)

\* a guard that looks for another spelling of the environment's name
InProductionProd == env.ENVIRONMENT = "prod"

\* os.getenv("ENVIRONMENT", "development") == "production"
InProduction == env.ENVIRONMENT = "production"

\* find({"email": email}).sort("created_at", -1).limit(1)
MostRecentOtps(coll, email) ==
    {d \in BagToSet(coll) :
        /\ d.email = email
        /\ \A other \in BagToSet(coll) : other.email = email => other.created_at <= d.created_at}

DebugGetOtp(email) ==
    LET ret(result, codes) == [op |-> "debug_get_otp", result |-> result, codes |-> codes]
    IN  /\ IF InProduction
           THEN last' = ret("Debug endpoints are not available in production", {})
           ELSE \/ last' = ret("Failed to retrieve OTP", {})       \* the query raises
                \/ /\ MostRecentOtps(otps, email) = {}
                   /\ last' = ret("No OTP found", {})
                \/ \E otp \in MostRecentOtps(otps, email) : last' = ret("ok", {otp.code})
        /\ UNCHANGED <<collection, cache, task, hist, authVars, now>>

NextDebug ==
    \/ \E email \in UserIds :
         \/ \E code \in OtpCodes : SendVerificationCode(email, code)
         \/ DebugGetOtp(email)
         \/ \E p \in Procs : DebugForceRegister(p, email, NewTokenId)
    \/ \E t \in OtpTimes : AdvanceClock(t)

SpecDebug == InitJwt /\ [][NextDebug]_vars

----------------------------------------------------------------------------
(* revoke_all_user_tokens, await by await (SpecRevoke) *)

MaxRevokeDocs == 5

\* one coroutine at a time, in slot 1 of task:
\*   pc "loop"  the cursor has given its documents, todo holds the token ids
\*              the loop has not blacklisted yet
\*   pc "done"  the call has ended, with result
Revoking(pc, p, user_id, todo, result) ==
    [pc |-> pc, proc |-> p, user |-> user_id, todo |-> todo, result |-> result]

\* the loop goes on while the cursor has documents left; after the last one
\* the call returns
AfterFetch(p, user_id, todo) ==
    IF todo = EmptyBag THEN Revoking("done", p, user_id, todo, "ok")
    ELSE Revoking("loop", p, user_id, todo, NoValue)

\* the call and the first fetch of `async for`: the cursor reads the records
\* of the user in one batch
StartRevokeAllUserTokens(p, user_id) ==
    /\ task[1].pc = "idle"
    /\ \/ task' = <<Revoking("done", p, user_id, EmptyBag, "store_error")>>
       \/ task' = <<AfterFetch(p, user_id, TokenIdBag(FindByUserId(collection, user_id)))>>
    /\ UNCHANGED <<collection, cache, last, hist, authVars, now>>

\* one turn of the loop: blacklist_token awaits its insert_one and adds the
\* id to the cache; an insert that raises ends the call
RevokeBlacklist ==
    LET t == task[1]
    IN  /\ t.pc = "loop"
        /\ \E token_id \in BagToSet(t.todo) :
             LET doc == BlacklistDoc(token_id, now)
                 todo == t.todo (-) SetToBag({token_id})
             IN  \/ /\ InsertAccepted(collection, doc)
                    /\ BagCardinality(collection) < MaxRevokeDocs
                    /\ collection' = InsertOne(collection, doc)
                    /\ cache' = AddToCache(cache, t.proc, {token_id})
                    /\ hist' = Happened(Happened(hist, "inserted", {token_id}),
                                        "blacklisted", {token_id})
                    /\ task' = <<AfterFetch(t.proc, t.user, todo)>>
                 \/ /\ ~InsertAccepted(collection, doc)
                    /\ task' = <<Revoking("done", t.proc, t.user, t.todo, "duplicate_key")>>
                    /\ UNCHANGED <<collection, cache, hist>>
                 \/ /\ task' = <<Revoking("done", t.proc, t.user, t.todo, "store_error")>>
                    /\ UNCHANGED <<collection, cache, hist>>
        /\ UNCHANGED <<last, authVars, now>>

\* the caller takes the answer
RevokeReturn ==
    /\ task[1].pc = "done"
    /\ last' = Returned("revoke_all_user_tokens", task[1].result, {})
    /\ task' = <<Idle>>
    /\ UNCHANGED <<collection, cache, hist, authVars, now>>

\* The collection holds the records of earlier rotations and no revocation
\* document: rotate_refresh_token stores a record for each new id, and
\* cleanup_expired_tokens has deleted the revocation documents stored with
\* them.  No token id is followed in hist.
InitRevoke ==
    /\ cache = [p \in Procs |-> {}]
    /\ last = NoCall
    /\ tokens = {}
    /\ users = <<>>
    /\ usersCollection = <<>>
    /\ otps = EmptyBag
    /\ now = 0
    /\ InitEnv([JWT_SECRET_KEY |-> NoValue, ENVIRONMENT |-> "development"])
    /\ hist = [watch |-> NoValue, done |-> {}]
    /\ task = <<Idle>>
    /\ \E recorded \in SUBSET TokenIds : \E owner \in [recorded -> UserIds] :
         collection = SetToBag({RefreshDoc(token_id, owner[token_id]) : token_id \in recorded})

NextRevoke ==
    \/ \E p \in Procs :
         \/ \E user_id \in UserIds : StartRevokeAllUserTokens(p, user_id)
         \/ Restart(p)
    \/ RevokeBlacklist
    \/ RevokeReturn

SpecRevoke == InitRevoke /\ [][NextRevoke]_vars

----------------------------------------------------------------------------
(* Properties of the TokenManager, call by call (Spec) *)

RotateReturned == last.op = "rotate_refresh_token"

\* C1: once rotate_refresh_token(R, ..) has returned True, no later
\* rotate_refresh_token call whose current id is R returns True again.
C1_ReplayRejected ==
    (RotateReturned /\ "rotated" \in last.pre) => last.result # "ok"

\* C2: a token id recorded as the new id of a successful rotation, with no
\* revocation document ever stored for it, is not answered "revoked" when it
\* is rotated in its turn.
C2_ChainRotates ==
    (RotateReturned /\ "recorded" \in last.pre /\ "inserted" \notin last.pre)
        => last.result # "revoked"

\* C4: once a blacklist_token(t) call has completed, is_token_blacklisted(t)
\* answers true at every instance in every later state.
C4_RevocationPermanent ==
    "blacklisted" \in hist.done => \A p \in Procs : IsTokenBlacklisted(p, hist.watch)

C7_BlacklistIdempotent ==
    (last.op = "blacklist_token" /\ "blacklisted" \in last.pre)
        => /\ last.result \in {"ok", "store_error"}
           /\ last.result = "ok" => \A p \in Procs : IsTokenBlacklisted(p, hist.watch)

C7_Witness ==
    /\ last.op = "blacklist_token" /\ "blacklisted" \in last.pre /\ last.result = "ok"
    /\ \E d \in BagToSet(collection) :
          IsBlacklistDoc(d) /\ d.token_id = hist.watch /\ collection[d] >= 2

----------------------------------------------------------------------------
(* Properties of interleaved rotations (SpecConc) *)

Overlap(i, j) == i \in task[j].with \/ j \in task[i].with

\* C3: of two rotate_refresh_token calls with the same current id that run
\* concurrently, at most one returns True.
C3_AtMostOneSuccess ==
    \A i \in Slots, j \in Slots :
        (i # j /\ Overlap(i, j) /\ task[i].cur = task[j].cur /\ task[i].result = "ok")
            => task[j].result # "ok"

----------------------------------------------------------------------------
(* Properties of the tokens (SpecJwt, SpecIssue) *)

\* C6: a refresh token minted by create_refresh_token for a subject is revoked
\* by a later revoke_all_user_tokens for that subject: rotating it afterwards
\* does not return True.
C6_MintedTokenRevoked ==
    (RotateReturned /\ "minted_revoked" \in last.pre) => last.result # "ok"

\* C8: verify_token, asked for a token's own type by a process holding the
\* key that signed it, accepts the token at every time before its exp and
\* answers "expired" at every time after its exp.
C8_VerifiesUntilExp ==
    (/\ last.op = "verify_token"
     /\ last.token_type = last.token.type
     /\ last.key = last.token.key)
        => /\ last.at < Seconds(last.token.exp) => last.result = "ok"
           /\ last.at > Seconds(last.token.exp) => last.result = "Signature has expired."

\* C9: get_current_user accepts no token whose type is "refresh", and
\* verify_token asked for a refresh token accepts no access token.
C9_TypeSeparation ==
    /\ (last.op = "get_current_user" /\ last.result = "ok") => last.token.type = "access"
    /\ (last.op = "verify_token" /\ last.token_type = "refresh" /\ last.result = "ok")
           => last.token.type = "refresh"

----------------------------------------------------------------------------
(* Properties of the OTP challenge (SpecOtp) *)

\* C10: a verify_otp request that submits the code of a stored, unexpired
\* challenge for the email of an existing account succeeds, unless the store
\* fails.
C10_OtpVerifies ==
    (last.op = "verify_otp" /\ last.matched /\ last.account)
        => last.result \in {"ok", "store_error", "Failed to verify OTP"}

\* C11: every stored challenge expires 10 minutes after it was created, and a
\* verify_otp or register_with_otp request whose email and code are those of
\* stored challenges that are all at or past their expires_at is answered
\* "Invalid or expired verification code" (or with the error of a failing
\* store), the challenges still being stored.
C11_OtpExpiry ==
    /\ \A d \in BagToSet(otps) :
          d.expires_at = d.created_at + Minutes(OTP_EXPIRE_MINUTES)
    /\ (last.op \in {"verify_otp", "register_with_otp"} /\ last.expired)
          => last.result \in {"Invalid or expired verification code", "store_error"}

C11_Witness ==
    /\ last.op = "verify_otp" /\ last.expired
    /\ last.result = "Invalid or expired verification code"
    /\ \E d \in BagToSet(otps) : d.expires_at = now

\* C12: a verify_otp request that fails for a wrong code, an expired code or
\* an email with no account gets one and the same answer.
C12_OneClientError ==
    (last.op = "verify_otp" /\ last.result \notin {"ok", "store_error", "Failed to verify OTP"})
        => last.result = "Invalid or expired verification code"

\* C13: a verify_otp request that found a matching unexpired challenge leaves
\* one challenge fewer in the store, whatever happens to the account update.
C13_MatchedOtpConsumed ==
    [][\A email \in UserIds, code \in OtpCodes :
          (/\ VerifyOtp(email, code)
           /\ FindOtp(otps, email, code, now) # {}
           /\ last'.result # "store_error")
              => BagCardinality(otps') < BagCardinality(otps)]_vars

\* C15: issuing a challenge removes none of the stored ones, and verify_otp
\* with the code of a stored unexpired challenge succeeds also when the
\* account was verified before through another challenge.
C15_OutstandingCodesVerify ==
    /\ [][(\E email \in UserIds, code \in OtpCodes : SendVerificationCode(email, code))
             => \A d \in BagToSet(otps) : CopiesIn(d, otps') >= CopiesIn(d, otps)]_vars
    /\ []((last.op = "verify_otp" /\ last.matched /\ last.verified /\ tokens = {})
             => last.result \in {"ok", "store_error", "Failed to verify OTP"})

\* C17: when send_verification_code answers after the insert, with success or
\* with the delivery error, the challenge it wrote is in the store, and while
\* the clock is before its expires_at the query of verify_otp finds it, for as
\* long as no later request has been answered; a request that failed before
\* or in the insert wrote nothing.
C17_StoredBeforeDelivery ==
    last.op = "send_verification_code"
        => /\ last.result \in {"ok", "Error sending email"}
                => \A d \in last.docs :
                      /\ d \in BagToSet(otps)
                      /\ now < d.expires_at => d \in FindOtp(otps, d.email, d.code, now)
           /\ (last.result \in {"ok", "Error sending email"}) <=> (last.docs # {})

C17_Witness ==
    /\ last.op = "send_verification_code"
    /\ last.result = "Error sending email"
    /\ now > 0
    /\ \E d \in last.docs : d \in FindOtp(otps, d.email, d.code, now)

\* C18: cleanup_expired_tokens deletes no revocation document younger than a
\* token lifetime: while the clock has not reached the shortest lifetime, no
\* document is old enough and a cleanup that returned has deleted nothing.
C18_CleanupKeepsValidTokens ==
    (/\ last.op = "cleanup_expired_tokens"
     /\ last.result = "ok"
     /\ now < Minutes(ACCESS_TOKEN_EXPIRE_MINUTES))
        => last.count = 0

\* C19: every token id in the cache of a process has a revocation document
\* in the collection.
C19_CacheBackedByStore ==
    \A p \in Procs : \A token_id \in cache[p] :
        FindRevocationByTokenId(collection, token_id) # {}

C16_OtpFormat ==
    (last.op = "generate_otp" /\ last.result = "ok")
        => /\ Len(last.out) = last.length
           /\ \A i \in 1 .. Len(last.out) : \E k \in 0 .. 9 : last.out[i] = DigitChar[k + 1]

C16_Witness ==
    /\ last.op = "generate_otp" /\ last.result = "ok"
    /\ last.length = DEFAULT_OTP_LENGTH
    /\ last.out = <<"0", "9", "0", "0", "4", "2">>

\* C14: a reset_password request changes the stored digest of an email only
\* after a verify_otp request for that email has returned success.
C14_ResetAfterVerification ==
    (last.op = "reset_password" /\ last.result = "ok" /\ "watched" \in last.pre)
        => "verified" \in last.pre

\* C21: verify_token answers a string that is no token with a 400-class
\* status, and a bad signature, an expired token and a wrong type with 401,
\* the four causes giving four different answers.
C21_ErrorKinds ==
    (last.op = "verify_token" /\ last.result # "ok")
        => IF "raw" \in DOMAIN last
           THEN /\ VerifyTokenStatus(last.result) \in (400 .. 499) \ {401}
                /\ last.result \notin {"Signature verification failed.",
                                       "Signature has expired.", "Invalid token type"}
           ELSE /\ VerifyTokenStatus(last.result) = 401
                /\ last.result \in {"Signature verification failed.",
                                    "Signature has expired.", "Invalid token type"}

\* C22: a login request the store answered gets 401 "Incorrect email or
\* password" when the credentials match no account, and 200 with a token for
\* the submitted email when they match; it never gets a server error.
C22_LoginNeverServerError ==
    (last.op = "login" /\ last.result # "store_error")
        => IF last.authenticated
           THEN last.status_code = 200 /\ last.subjects # {}
           ELSE last.status_code = 401 /\ last.result = "Incorrect email or password"

\* C23: with ENVIRONMENT = "production" a request to debug_get_otp or to
\* debug_force_register is answered 403 "Debug endpoints are not available
\* in production", returns no code, and leaves the accounts, the challenges
\* and the minted tokens as they were.
C23_DebugClosedInProduction ==
    /\ []((env.ENVIRONMENT = "production" /\ last.op \in {"debug_get_otp", "debug_force_register"})
            => /\ last.result = "Debug endpoints are not available in production"
               /\ last.op = "debug_get_otp" => last.codes = {})
    /\ [][(/\ env.ENVIRONMENT = "production"
           /\ \E email \in UserIds :
                \/ DebugGetOtp(email)
                \/ \E p \in Procs : DebugForceRegister(p, email, NewTokenId))
             => UNCHANGED <<users, usersCollection, otps, tokens>>]_vars

C23_Witness ==
    /\ env.ENVIRONMENT = "production"
    /\ last.op = "debug_get_otp"
    /\ last.result = "Debug endpoints are not available in production"
    /\ otps # EmptyBag

\* C24: an id enters the cache of a process only in a step after which the
\* collection holds a document of that id, and a blacklist_token call whose
\* insert did not succeed leaves cache and collection as they were.
C24_DurableBeforeCache ==
    /\ [][\A p \in Procs : \A token_id \in cache'[p] \ cache[p] :
             FindByTokenId(collection', token_id) # {}]_vars
    /\ [][(last' # last /\ last'.op = "blacklist_token" /\ last'.result # "ok")
             => UNCHANGED <<cache, collection>>]_vars

C24_Witness ==
    /\ last.op = "blacklist_token"
    /\ last.result = "store_error"
    /\ "watched" \in last.pre
    /\ \A p \in Procs : hist.watch \notin cache[p]
    /\ FindByTokenId(collection, hist.watch) = {}

\* the number of revocation documents the collection holds for a token id
RevocationCount(token_id) ==
    BagCardinality([d \in {x \in DOMAIN collection :
                             IsBlacklistDoc(x) /\ x.token_id = token_id} |-> collection[d]])

\* C25: a blacklist_token call on an id that had been blacklisted before
\* adds nothing: the collection holds one revocation document of the id.
C25_BlacklistTwiceOneRecord ==
    (last.op = "blacklist_token" /\ last.result = "ok" /\ "blacklisted" \in last.pre)
        => RevocationCount(hist.watch) <= 1

\* C26: is_token_blacklisted on an id of which no revocation document was
\* ever stored does not answer true and does not put the id into the cache.
C26_OnlyRevokedIdsBlacklisted ==
    (/\ last.op = "is_token_blacklisted"
     /\ "watched" \in last.pre
     /\ "inserted" \notin last.pre)
        => /\ last.result \in {"false", "store_error"}
           /\ "inserted" \notin hist.done => \A p \in Procs : hist.watch \notin cache[p]

\* C27: in every step other than a restart of the process, the cache of each
\* process keeps every id it held.
C27_CacheMonotonic ==
    [][\/ \A p \in Procs : cache[p] \subseteq cache'[p]
       \/ \E p \in Procs : Restart(p)]_vars

C27_Witness ==
    /\ last.op = "cleanup_expired_tokens"
    /\ last.count > 0
    /\ \E p \in Procs : hist.watch \in cache[p]
    /\ FindByTokenId(collection, hist.watch) = {}

\* C28: an is_token_blacklisted call on a cached id answers true whatever
\* the store does; on a miss it answers what the store holds; a call that
\* answers true leaves the id in the cache and changes nothing else, a call
\* that answers false changes nothing.
C28_ReadBackfill ==
    [][\A p \in Procs, token_id \in TokenIds :
          (last'.op = "is_token_blacklisted" /\ IsTokenBlacklistedCall(p, token_id))
              => /\ collection' = collection
                 /\ token_id \in cache[p] => (last'.result = "true" /\ cache' = cache)
                 /\ last'.result = "true"
                       => /\ cache' = AddToCache(cache, p, {token_id})
                          /\ token_id \in cache[p] \/ FindByTokenId(collection, token_id) # {}
                 /\ last'.result = "false"
                       => /\ cache' = cache
                          /\ token_id \notin cache[p]
                          /\ FindByTokenId(collection, token_id) = {}]_vars

C28_Witness ==
    /\ last.op = "is_token_blacklisted"
    /\ last.result = "true"
    /\ "recorded" \in last.pre
    /\ "inserted" \notin hist.done
    /\ \E p \in Procs : hist.watch \in cache[p]

\* C29: a rotate_refresh_token call that returns True has stored both the
\* revocation document of the current id and the record of the new id, and a
\* call that ends otherwise has not stored the record of the new id.
C29_RotateFailsClosed ==
    [][(/\ last'.op = "rotate_refresh_token"
        /\ last' # last \/ collection' # collection)
          => IF last'.result = "ok"
             THEN \E current_token_id \in TokenIds, new_token_id \in TokenIds,
                     user_id \in UserIds :
                     LET blk == BlacklistDoc(current_token_id, now)
                         rec == RefreshDoc(new_token_id, user_id)
                     IN  /\ CopiesIn(blk, collection') = CopiesIn(blk, collection) + 1
                         /\ CopiesIn(rec, collection') = CopiesIn(rec, collection) + 1
             ELSE \A d \in BagToSet(collection') :
                     IsRefreshDoc(d) => CopiesIn(d, collection') = CopiesIn(d, collection)]_vars

C29_Witness ==
    /\ last.op = "rotate_refresh_token"
    /\ last.result = "store_error"
    /\ "watched" \in last.pre
    /\ "inserted" \notin last.pre
    /\ "inserted" \in hist.done
    /\ "rotated" \notin hist.done

\* the records the collection holds for a user
RecordedFor(user_id) ==
    {d \in BagToSet(collection) : IsRefreshDoc(d) /\ d.user_id = user_id}

\* C30: a revoke_all_user_tokens call that ends without error, whether or
\* not an earlier call for the user was cut short, leaves a revocation
\* document in the collection, and the id in the cache of the process, for
\* every token id recorded for the user; and no call ends because an id it
\* met had been blacklisted before.
C30_RevokeAllRetry ==
    task[1].pc = "done"
        => /\ task[1].result \in {"ok", "store_error"}
           /\ task[1].result = "ok"
                 => \A d \in RecordedFor(task[1].user) :
                       /\ FindRevocationByTokenId(collection, d.token_id) # {}
                       /\ d.token_id \in cache[task[1].proc]

\* the call has ended without error after an earlier one was cut short: one
\* recorded id of the user has two revocation documents, another has one
C30_Witness ==
    /\ task[1].pc = "done"
    /\ task[1].result = "ok"
    /\ \E d, e \in RecordedFor(task[1].user) :
         /\ RevocationCount(d.token_id) = 2
         /\ RevocationCount(e.token_id) = 1

\* C35: a rotate_refresh_token call that is rejected because its current id
\* is blacklisted writes nothing: the collection after the call is the
\* collection before it, with no new revocation document and no record of
\* the new id.
C35_RejectedRotateWritesNothing ==
    [][(/\ last'.op = "rotate_refresh_token"
        /\ last'.result = "revoked")
          => collection' = collection]_vars

\* a rotation of the followed id was rejected while the collection holds a
\* revocation document of it
C35_Witness ==
    /\ last.op = "rotate_refresh_token"
    /\ last.result = "revoked"
    /\ "watched" \in last.pre
    /\ "inserted" \in last.pre
    /\ RevocationCount(hist.watch) >= 1

\* no document of the collection carries the token id
NotFound(coll, token_id) == \A d \in BagToSet(coll) : d.token_id # token_id

\* the revocation documents a collection holds for a token id
RevocationsOf(coll, token_id) ==
    [d \in {x \in BagToSet(coll) : IsBlacklistDoc(x) /\ x.token_id = token_id} |-> coll[d]]

\* C39: a rotate_refresh_token call that returns True was made with a current
\* id that no document of the collection carried, whatever else is known of
\* the id and whoever the user is; it leaves one revocation document of the
\* current id and has added one record (new_token_id, user_id).
C39_RotateChecksOnlyNotFound ==
    [][(/\ last'.op = "rotate_refresh_token"
        /\ last'.result = "ok"
        /\ last' # last \/ collection' # collection)
          => \E current_token_id \in TokenIds, new_token_id \in TokenIds,
                user_id \in UserIds :
                LET blk == BlacklistDoc(current_token_id, now)
                    rec == RefreshDoc(new_token_id, user_id)
                IN  /\ NotFound(collection, current_token_id)
                    /\ RevocationsOf(collection', current_token_id) = SetToBag({blk})
                    /\ CopiesIn(rec, collection') = CopiesIn(rec, collection) + 1]_vars

\* a rotation returned True for a current id that had never been minted,
\* recorded or met by any call before
C39_Witness ==
    /\ last.op = "rotate_refresh_token"
    /\ last.result = "ok"
    /\ last.pre = {"watched"}
    /\ \A tk \in tokens : tk.jti # hist.watch
    /\ RevocationCount(hist.watch) = 1

\* C40: cleanup_expired_tokens deletes revocation documents only: the
\* refresh-token records of every user, and so the token ids that
\* revoke_all_user_tokens would visit for the user, are the same after a
\* cleanup as before it.
C40_CleanupKeepsRecords ==
    [][last'.op = "cleanup_expired_tokens"
          => \A d \in BagToSet(collection) \cup BagToSet(collection') :
                IsRefreshDoc(d) => CopiesIn(d, collection') = CopiesIn(d, collection)]_vars

\* a cleanup has deleted revocation documents from a collection that holds
\* a refresh-token record
C40_Witness ==
    /\ last.op = "cleanup_expired_tokens"
    /\ last.result = "ok"
    /\ last.count > 0
    /\ \E user_id \in UserIds : RecordedFor(user_id) # {}

\* the token ids recorded for a user in a collection
IdsRecordedFor(coll, user_id) ==
    {d.token_id : d \in {x \in BagToSet(coll) : IsRefreshDoc(x) /\ x.user_id = user_id}}

AccessOutcomes(op, tk, token_type, key, t, accounts) ==
    IF tk.key # key \/ tk.exp < Timestamp(t)
    THEN IF op = "verify_token"
         THEN {"Signature verification failed.", "Signature has expired."}
         ELSE {"Could not validate credentials"}
    ELSE IF op = "verify_token"
         THEN IF tk.type = token_type THEN {"ok"} ELSE {"Invalid token type"}
         ELSE IF tk.sub \in DOMAIN accounts THEN {"ok", "store_error"}
              ELSE {"Could not validate credentials", "store_error"}

\* C31: verify_token and get_current_user neither read nor write the
\* blacklist: a call leaves the collection and the caches as they were, and
\* its answer is fixed by the token, the key, the time and the accounts, so it
\* is the same in two states that differ in the collection and the caches
\* only.
C31_VerificationIgnoresBlacklist ==
    [][last'.op \in {"verify_token", "get_current_user"}
          => /\ collection' = collection
             /\ cache' = cache
             /\ last'.result \in AccessOutcomes(last'.op, last'.token, last'.token_type,
                                                 last'.key, last'.at, users')]_vars

\* a token is accepted by the process that has its jti in the cache and a
\* revocation document of that jti in the collection
C31_Witness ==
    /\ last.op \in {"verify_token", "get_current_user"}
    /\ last.result = "ok"
    /\ last.at = now
    /\ \E p \in Procs : last.token.jti \in cache[p]
    /\ RevocationCount(last.token.jti) >= 1

\* C34: with no JWT_SECRET_KEY in the environment, a process that starts
\* holds a key that signed none of the tokens minted before, so verify_token
\* answers "Signature verification failed." for a token minted by another
\* instance or before a restart; the instance that minted a token still
\* accepts it, asked for its type, at every time before its exp.
C34_GeneratedKeyPerProcess ==
    /\ [](("token" \in DOMAIN last /\ last.op = "verify_token"
             /\ env.JWT_SECRET_KEY = NoValue)
            => /\ last.key # last.token.key
                  => last.result = "Signature verification failed."
               /\ (/\ last.key = last.token.key
                   /\ last.token_type = last.token.type
                   /\ last.at < Seconds(last.token.exp))
                  => last.result = "ok")
    /\ [][(env.JWT_SECRET_KEY = NoValue /\ secret' # secret)
            => \A p \in Procs :
                  secret'[p] # secret[p]
                     => /\ \A tk \in tokens : tk.key # secret'[p]
                        /\ \A q \in Procs : secret[q] # secret'[p]]_vars

\* a token minted before a restart is refused by the restarted process, with
\* its type and before its exp
C34_Witness ==
    /\ "token" \in DOMAIN last
    /\ last.op = "verify_token"
    /\ env.JWT_SECRET_KEY = NoValue
    /\ last.token.key < last.key
    /\ last.token_type = last.token.type
    /\ last.at < Seconds(last.token.exp)
    /\ last.result = "Signature verification failed."
    /\ \E p \in Procs : secret[p] = last.key

\* C37: verify_otp answers "User not found" only for an email that has no
\* account; with an account, verified already or not, a matching unexpired
\* code is accepted.
C37_NotFoundOnlyWithoutAccount ==
    /\ (last.op = "verify_otp" /\ last.result = "User not found") => ~last.account
    /\ (/\ last.op = "verify_otp"
        /\ last.matched
        /\ last.account
        /\ last.result \notin {"store_error", "Failed to verify OTP"})
          => last.result = "ok"

\* C33: when the upsert of register_with_otp raises, the request is answered
\* with an error, no token is minted and no account written, and the matched
\* challenge has been deleted: what a retry with the same code can still find
\* is another stored challenge, never the one that matched.
C33_OtpConsumedBeforeUpsert ==
    [][(/\ last'.op = "register_with_otp"
        /\ last'.raised = "update_one"
        /\ last' # last \/ otps' # otps)
          => /\ last'.result = "Registration failed"
             /\ last'.matched
             /\ tokens' = tokens
             /\ users' = users
             /\ \E otp_record \in BagToSet(otps) :
                   /\ otp_record.expires_at > now
                   /\ otps' = DeleteOne(otps, otp_record)
                   /\ CopiesIn(otp_record, otps') = CopiesIn(otp_record, otps) - 1]_vars

\* the upsert raised after the only stored challenge had matched: nothing is
\* left for a retry to find, and no token and no account exist
C33_Witness ==
    /\ last.op = "register_with_otp"
    /\ last.raised = "update_one"
    /\ last.matched
    /\ otps = EmptyBag
    /\ tokens = {}
    /\ ~last.account

\* C38: in production every token that is minted is an access token, minted
\* by a login whose password verified, by a register_with_otp that matched an
\* unexpired challenge of the subject, or by /refresh-token for a token of the
\* subject that is validly signed and not past its exp, the subject having an
\* account.
C38_MintingPaths ==
    [][(env.ENVIRONMENT = "production" /\ tokens' # tokens)
          => \A tk \in tokens' \ tokens :
                /\ tk.type = "access"
                /\ \/ /\ last'.op = "login"
                      /\ last'.authenticated
                   \/ /\ last'.op = "register_with_otp"
                      /\ \E code \in OtpCodes : FindOtp(otps, tk.sub, code, now) # {}
                   \/ /\ last'.op = "refresh_token"
                      /\ last'.token \in tokens
                      /\ last'.token.sub = tk.sub
                      /\ \E p \in Procs : last'.token.key = secret[p]
                      /\ now <= Seconds(last'.token.exp)
                      /\ tk.sub \in DOMAIN users]_vars

====
